---- MODULE Spec2Model ----
(***************************************************************************)
(* Arena backings of the cached tree hash: the vector backing              *)
(* (Vec<Hash256>) and the byte-mapped backing (AnonMmap), as implemented   *)
(* in consensus/cached_tree_hash/src/arena_backing.rs.                     *)
(*                                                                         *)
(* A mapping is a sequence of bytes (its length is capacity_bytes()); a    *)
(* Hash256 is a sequence of HASHSIZE bytes.  Rust's 0-based half-open      *)
(* slices s[lo..hi] are SubSeq(s, lo + 1, hi).  A panic ends the call: the *)
(* state it leaves behind is what unwinding leaves in the struct.          *)
(*                                                                         *)
(* The validator import command (cli_run of                                *)
(* account_manager/src/validator/import.rs) is a second, separate program: *)
(* one step per statement that can fail or that changes the validator      *)
(* directory, the slashing protection database or the definitions.         *)
(***************************************************************************)
EXTENDS Integers, Sequences, FiniteSets, TLC

VARIABLES
    arena,  \* the AnonMmap under test
    vec,    \* the Vec<Hash256> driven by the same calls
    live,   \* [m, v]: which of the two exists and has not panicked
    call,   \* the last call: [op, a, b, repl, bytes]
    res,    \* its outcome: [ret, mapfail, out, n, vret, vout]
    prev    \* the AnonMmap as it was before the last call

VARIABLES
    keystore_paths,     \* the keystores to import, each named by its pubkey
    reuse_password,     \* --reuse-password is present
    existing,           \* pubkeys with a directory in validator_dir at start
    pc,                 \* the statement cli_run is at
    idx,                \* position of src_keystore in keystore_paths (from 1)
    previous_password,  \* Option<ZeroizeString>
    password_opt,       \* what the password loop broke with
    dest_dirs,          \* pubkeys with a directory in validator_dir now
    defs,               \* the validator definitions in memory
    saved,              \* the validator definitions file
    num_imported_keystores,
    steps,              \* what the run has done so far: [op, k, password]
    reported            \* the counts of the closing message

arenaVars == <<arena, vec, live, call, res, prev>>

importVars == <<keystore_paths, reuse_password, existing, pc, idx,
                previous_password, password_opt, dest_dirs, defs, saved,
                num_imported_keystores, steps, reported>>

vars == <<arenaVars, importVars>>

\* tree_hash::HASHSIZE, the byte length of one Hash256.
HASHSIZE == 32

\* Largest capacity, in digests, that a call may request or a splice may reach.
MaxCap == 2
\* Longest replacement handed to splice_forgetful.
MaxRepl == 2

\* The digests the callers write (identities; HashBytes gives their bytes).
DigestIds == {1, 2}

\* Indices and capacities the callers pass.
Indices == 0..MaxCap

\* The replacements handed to splice_forgetful, as sequences of identities:
\* the runs 1, 2, 1, .. and 2, 1, 2, .. of every length up to MaxRepl.
Repls ==
    {[i \in 1..k |-> IF i % 2 = first % 2 THEN 1 ELSE 2] :
        k \in 0..MaxRepl, first \in DigestIds}

----------------------------------------------------------------------------
\* Bytes and slices

Zeros(n) == [i \in 1..n |-> 0]

\* Hash256::as_bytes of the digest with identity d: HASHSIZE distinct bytes.
HashBytes(d) == [i \in 1..HASHSIZE |-> d * HASHSIZE + i - 1]

\* s[lo..hi] is in bounds (otherwise the index expression panics).
SliceOk(s, lo, hi) == lo <= hi /\ hi <= Len(s)

Slice(s, lo, hi) == SubSeq(s, lo + 1, hi)

\* dst[lo..hi].copy_from_slice(src); the caller has checked the bounds and
\* that both slices have the same length.
CopyFromSlice(dst, lo, hi, src) ==
    [i \in 1..Len(dst) |-> IF i > lo /\ i <= hi THEN src[i - lo] ELSE dst[i]]

\* slice::copy_within(src_lo..src_hi, dest) is in bounds.
CopyWithinOk(s, srcLo, srcHi, dest) ==
    /\ srcLo <= srcHi
    /\ srcHi <= Len(s)
    /\ dest + (srcHi - srcLo) <= Len(s)

\* slice::copy_within: an overlap-safe move of s[src_lo..src_hi] to dest.
CopyWithin(s, srcLo, srcHi, dest) ==
    [i \in 1..Len(s) |->
        IF i > dest /\ i <= dest + (srcHi - srcLo)
        THEN s[srcLo + (i - dest)]
        ELSE s[i]]

\* bytes_range: an index range as a byte range.
bytes_range(a, b) == [start |-> a * HASHSIZE, end |-> b * HASHSIZE]

RECURSIVE Flatten(_)
\* The bytes of a sequence of Hash256 values, one after the other.
Flatten(hs) == IF hs = <<>> THEN <<>> ELSE Head(hs) \o Flatten(Tail(hs))

\* The Hash256 values of a sequence of digest identities.
Hashes(ids) == [i \in 1..Len(ids) |-> HashBytes(ids[i])]

----------------------------------------------------------------------------
\* AnonMmap { mmap: Option<MmapMut>, len: usize }

Some(x) == [some |-> TRUE, val |-> x]
None == [some |-> FALSE, val |-> <<>>]

AnonMmap(mmap, len) == [mmap |-> mmap, len |-> len]

\* #[derive(Default)]: no mapping, len 0.
DefaultAnonMmap == AnonMmap(None, 0)

capacity_bytes(m) == IF m.mmap.some THEN Len(m.mmap.val) ELSE 0

len_bytes(m) == m.len

\* ArenaBacking::len for AnonMmap.
MmapLen(m) == m.len \div HASHSIZE

\* new_non_empty_mmap: map_anon of a zero length fails, and so does any
\* request the system refuses (oom); expect("FIXME") then panics.
MapFails(capacity, oom) == capacity = 0 \/ oom

\* The zero-filled mapping new_non_empty_mmap returns.
new_non_empty_mmap(capacity) == Zeros(capacity)

Ok(m) == [ret |-> "ok", arena |-> m]
Panic(m) == [ret |-> "panic", arena |-> m]

\* AnonMmap::with_capacity
MmapWithCapacity(capacity, oom) ==
    LET len == capacity * HASHSIZE IN
    IF capacity = 0 THEN Ok(AnonMmap(None, len))
    ELSE IF MapFails(len, oom) THEN Panic(DefaultAnonMmap)
    ELSE Ok(AnonMmap(Some(new_non_empty_mmap(len)), len))

\* AnonMmap::extend_capacity.  The copy new_mmap[0..len] <- mmap[0..len]
\* panics when len exceeds the old mapping.
MmapExtendCapacity(m, c, oom) ==
    LET capacity == c * HASHSIZE IN
    IF m.mmap.some /\ capacity > Len(m.mmap.val)
    THEN IF MapFails(capacity, oom) THEN Panic(m)
         ELSE IF ~SliceOk(m.mmap.val, 0, m.len) THEN Panic(m)
         ELSE Ok(AnonMmap(
                 Some(CopyFromSlice(new_non_empty_mmap(capacity), 0, m.len,
                                    Slice(m.mmap.val, 0, m.len))),
                 m.len))
    ELSE Ok(m)

\* A slip in new_with_start_and_end_bytes!: a mapping made for the first time
\* is rounded up by one hash, so it has slack beyond new_len.
NewWithStartAndEndBytesSlack(m, range, replace_with_bytes, new_len, oom) ==
    IF MapFails(new_len, oom) \/ m.mmap.some THEN None
    ELSE Some(new_non_empty_mmap(new_len + HASHSIZE))

\* The macro new_with_start_and_end_bytes! of splice_forgetful: a new mapping
\* of new_len bytes holding the old head and the old tail.  None stands for
\* a panic (mapping failure, a slice out of bounds, or copy_from_slice on
\* slices of different lengths).
NewWithStartAndEndBytes(m, range, replace_with_bytes, new_len, oom) ==
    IF MapFails(new_len, oom) THEN None
    ELSE
    LET new == new_non_empty_mmap(new_len) IN
    IF ~m.mmap.some THEN Some(new)
    ELSE
    LET old == m.mmap.val
        tailAt == range.start + replace_with_bytes
    IN  IF ~(SliceOk(new, 0, range.start) /\ SliceOk(old, 0, range.start))
        THEN None
        ELSE
        LET withHead == CopyFromSlice(new, 0, range.start,
                                      Slice(old, 0, range.start))
        IN  IF ~(SliceOk(withHead, tailAt, Len(withHead))
                 /\ SliceOk(old, range.end, Len(old)))
            THEN None
            ELSE IF Len(withHead) - tailAt # Len(old) - range.end
            THEN None
            ELSE Some(CopyFromSlice(withHead, tailAt, Len(withHead),
                                    Slice(old, range.end, Len(old))))

RECURSIVE WriteHashes(_, _, _)
\* The loop of splice_forgetful writing replace_with into the mapping, one
\* hash per iteration at start, start + HASHSIZE, ...; None stands for the
\* panic of mmap[start..end] out of bounds.
WriteHashes(mmap, start, hashes) ==
    IF hashes = <<>> THEN Some(mmap)
    ELSE LET end == start + HASHSIZE IN
         IF ~SliceOk(mmap, start, end) THEN None
         ELSE WriteHashes(CopyFromSlice(mmap, start, end, Head(hashes)),
                          end, Tail(hashes))

\* The in-place branch of splice_forgetful, entered after
\* mem::replace(&mut self.mmap, None) took the mapping out: the tail is
\* moved with copy_within.  None stands for the panic of copy_within.
ShiftEndBytes(mmap, range, replace_with_bytes, old_len) ==
    LET first_end_byte == range.start + replace_with_bytes IN
    IF range.end # first_end_byte /\ first_end_byte < Len(mmap)
    THEN IF CopyWithinOk(mmap, range.end, old_len, first_end_byte)
         THEN Some(CopyWithin(mmap, range.end, old_len, first_end_byte))
         ELSE None
    ELSE Some(mmap)

\* new_len of splice_forgetful; None stands for the subtraction
\* self.len - (range_bytes - replace_with_bytes) going below zero: a panic
\* with overflow checks, and without them a wrapped new_len near 2^64 that
\* no mapping can be made for, so new_non_empty_mmap panics; either way
\* splice_forgetful panics before it has changed self.
SpliceNewLen(len, range_bytes, replace_with_bytes) ==
    IF replace_with_bytes > range_bytes
    THEN Some(len + (replace_with_bytes - range_bytes))
    ELSE IF len < range_bytes - replace_with_bytes THEN None
    ELSE Some(len - (range_bytes - replace_with_bytes))

\* The mapping splice_forgetful is about to write into, once new_len # 0:
\* [mapping (an Option, None for a panic), taken (whether self.mmap had been
\* replaced by None before)].
SpliceSelectMmap(m, range, replace_with_bytes, new_len, oom) ==
    IF new_len > capacity_bytes(m)
    THEN [mapping |-> NewWithStartAndEndBytes(m, range, replace_with_bytes,
                                              new_len, oom),
          taken |-> FALSE]
    ELSE IF m.mmap.some
    THEN [mapping |-> ShiftEndBytes(m.mmap.val, range, replace_with_bytes,
                                    m.len),
          taken |-> TRUE]
    ELSE [mapping |-> NewWithStartAndEndBytes(m, range, replace_with_bytes,
                                              new_len, oom),
          taken |-> TRUE]

\* What a panic of splice_forgetful leaves in self: the mapping is gone when
\* it had been taken out, and len still has its old value.
SpliceAbort(m, taken) ==
    Panic(IF taken THEN AnonMmap(None, m.len) ELSE m)

\* A slip in the new_len == 0 branch: len is reset, the mapping is kept.
SpliceToEmptyKeepsMmap(m) == AnonMmap(m.mmap, 0)

\* The new_len == 0 branch of splice_forgetful: self.len = 0 and the mapping
\* is swapped for None.
SpliceToEmpty(m) == AnonMmap(None, 0)

\* AnonMmap::splice_forgetful(range = a..b, replace_with).
MmapSpliceForgetful(m, a, b, replace_with, oom) ==
    LET range == bytes_range(a, b) IN
    \* range.start.checked_sub(range.end).expect(..)
    IF range.start < range.end THEN Panic(m)
    ELSE
    LET range_bytes == range.start - range.end
        replace_with_bytes == Len(replace_with) * HASHSIZE
        nl == SpliceNewLen(m.len, range_bytes, replace_with_bytes)
    IN  IF ~nl.some THEN Panic(m)
        ELSE
        LET new_len == nl.val IN
        IF new_len = 0 THEN Ok(SpliceToEmpty(m))
        ELSE
        LET sel == SpliceSelectMmap(m, range, replace_with_bytes, new_len, oom)
        IN  IF ~sel.mapping.some THEN SpliceAbort(m, sel.taken)
            ELSE
            LET written == WriteHashes(sel.mapping.val, range.start,
                                       replace_with)
            IN  IF ~written.some THEN SpliceAbort(m, sel.taken)
                ELSE Ok(AnonMmap(Some(written.val), new_len))

\* AnonMmap::get: the window is taken from the whole mapping.
MmapGet(m, i) ==
    IF m.mmap.some /\ SliceOk(m.mmap.val, i * HASHSIZE, (i + 1) * HASHSIZE)
    THEN Some(Slice(m.mmap.val, i * HASHSIZE, (i + 1) * HASHSIZE))
    ELSE None

\* AnonMmap::get_mut followed by the caller overwriting the view with the
\* bytes of hash; without a view nothing is written.
MmapGetMutWrite(m, i, hash) ==
    IF m.mmap.some /\ SliceOk(m.mmap.val, i * HASHSIZE, (i + 1) * HASHSIZE)
    THEN [view |-> TRUE,
          arena |-> AnonMmap(Some(CopyFromSlice(m.mmap.val, i * HASHSIZE,
                                                (i + 1) * HASHSIZE, hash)),
                             m.len)]
    ELSE [view |-> FALSE, arena |-> m]

RECURSIVE Chunks(_)
\* slice::chunks(HASHSIZE)
Chunks(s) ==
    IF s = <<>> THEN <<>>
    ELSE IF Len(s) <= HASHSIZE THEN <<s>>
    ELSE <<Slice(s, 0, HASHSIZE)>> \o Chunks(Slice(s, HASHSIZE, Len(s)))

\* A slip in iter_range: a range ending beyond len is cut at len instead of
\* being refused.
MmapIterRangeTruncating(m, a, b) ==
    LET range == bytes_range(a, b)
        end == IF range.end <= m.len THEN range.end ELSE m.len
    IN  IF m.mmap.some /\ SliceOk(m.mmap.val, range.start, end)
        THEN [ret |-> "ok",
              out |-> Chunks(Slice(m.mmap.val, range.start, end))]
        ELSE [ret |-> "ok", out |-> <<>>]

\* AnonMmap::iter_range, collected: [ret, out].
MmapIterRange(m, a, b) ==
    LET range == bytes_range(a, b) IN
    IF ~(range.end <= m.len) THEN [ret |-> "panic", out |-> <<>>]
    ELSE IF m.mmap.some
    THEN IF SliceOk(m.mmap.val, range.start, range.end)
         THEN [ret |-> "ok",
               out |-> Chunks(Slice(m.mmap.val, range.start, range.end))]
         ELSE [ret |-> "panic", out |-> <<>>]
    ELSE [ret |-> "ok", out |-> <<>>]

\* Clone for AnonMmap.
MmapClone(m, oom) ==
    IF m.mmap.some
    THEN IF MapFails(Len(m.mmap.val), oom) THEN Panic(m)
         ELSE Ok(AnonMmap(Some(CopyFromSlice(
                                 new_non_empty_mmap(Len(m.mmap.val)), 0,
                                 Len(m.mmap.val), m.mmap.val)),
                          Len(m.mmap.val)))
    ELSE Ok(DefaultAnonMmap)

\* PartialEq for AnonMmap, self == other: [ret, eq]; the slices a[..self.len]
\* and b[..other.len] panic when len is beyond the mapping.
MmapEq(self, other) ==
    IF self.mmap.some /\ other.mmap.some
    THEN IF SliceOk(self.mmap.val, 0, self.len)
            /\ SliceOk(other.mmap.val, 0, other.len)
         THEN [ret |-> "ok",
               eq |-> Slice(self.mmap.val, 0, self.len)
                        = Slice(other.mmap.val, 0, other.len)]
         ELSE [ret |-> "panic", eq |-> FALSE]
    ELSE [ret |-> "ok", eq |-> (~self.mmap.some /\ ~other.mmap.some)]

\* Encode::ssz_bytes_len for AnonMmap.
ssz_bytes_len(m) == MmapLen(m)

\* Encode::ssz_append for AnonMmap: the bytes appended to buf.
ssz_append(m) == IF m.mmap.some THEN Slice(m.mmap.val, 0, Len(m.mmap.val))
                 ELSE <<>>

\* Decode::from_ssz_bytes for AnonMmap.
from_ssz_bytes(bytes, oom) ==
    IF MapFails(Len(bytes), oom) THEN Panic(DefaultAnonMmap)
    ELSE Ok(AnonMmap(Some(CopyFromSlice(new_non_empty_mmap(Len(bytes)), 0,
                                        Len(bytes), bytes)),
                     Len(bytes)))

----------------------------------------------------------------------------
\* The size each call hands to new_non_empty_mmap: Some(bytes), or None when
\* the call does not reach new_non_empty_mmap.

WithCapacityRequest(capacity) ==
    IF capacity = 0 THEN None ELSE Some(capacity * HASHSIZE)

ExtendCapacityRequest(m, c) ==
    IF m.mmap.some /\ c * HASHSIZE > Len(m.mmap.val)
    THEN Some(c * HASHSIZE) ELSE None

CloneRequest(m) == IF m.mmap.some THEN Some(Len(m.mmap.val)) ELSE None

FromSszBytesRequest(bytes) == Some(Len(bytes))

SpliceRequest(m, a, b, replace_with) ==
    LET range == bytes_range(a, b) IN
    IF range.start < range.end THEN None
    ELSE
    LET nl == SpliceNewLen(m.len, range.start - range.end,
                           Len(replace_with) * HASHSIZE)
    IN  IF ~nl.some THEN None
        ELSE IF nl.val = 0 THEN None
        ELSE IF nl.val > capacity_bytes(m) \/ ~m.mmap.some THEN Some(nl.val)
        ELSE None

----------------------------------------------------------------------------
\* Vec<Hash256>: a sequence of Hash256 values.

VecWithCapacity == <<>>

VecLen(v) == Len(v)

\* Vec extend_capacity: reserve changes the allocation, never the elements.
VecExtendCapacity(v, capacity) == v

\* Vec::splice panics on a range that is inverted or ends beyond the length.
VecSpliceForgetful(v, a, b, replace_with) ==
    IF a > b \/ b > Len(v) THEN [ret |-> "panic", vec |-> v]
    ELSE [ret |-> "ok",
          vec |-> SubSeq(v, 1, a) \o replace_with \o SubSeq(v, b + 1, Len(v))]

VecGet(v, i) == IF i < Len(v) THEN Some(v[i + 1]) ELSE None

VecGetMutWrite(v, i, hash) ==
    IF i < Len(v) THEN [v EXCEPT ![i + 1] = hash] ELSE v

\* Vec iter_range, collected: self[range] panics out of bounds.
VecIterRange(v, a, b) ==
    IF a > b \/ b > Len(v) THEN [ret |-> "panic", out |-> <<>>]
    ELSE [ret |-> "ok", out |-> SubSeq(v, a + 1, b)]

----------------------------------------------------------------------------
\* Inputs and records of the import command.

\* Longest list of keystore paths handed to one run.
MaxPaths == 2

\* Public keys of the keystores; a keystore is named by its public key, and
\* two paths may hold the same keystore.
Pubkeys == {1, 2}

\* The empty line at the password prompt.
EmptyPassword == 0

\* What the user may type at the prompt: nothing, or the password of one of
\* the keystores (the password of keystore k is written k).
Typed == {EmptyPassword} \cup Pubkeys

NoPassword == [some |-> FALSE, val |-> EmptyPassword]
SomePassword(password) == [some |-> TRUE, val |-> password]

KeystorePaths == UNION {[1..n -> Pubkeys] : n \in 0..MaxPaths}

Step(op, k, password) == [op |-> op, k |-> k, password |-> password]

NotReported == [printed |-> FALSE, imported |-> 0, skipped |-> 0]

\* The import command is not running.
ImportAtRest ==
    /\ keystore_paths = <<>>
    /\ reuse_password = FALSE
    /\ existing = {}
    /\ pc = "rest"
    /\ idx = 0
    /\ previous_password = NoPassword
    /\ password_opt = NoPassword
    /\ dest_dirs = {}
    /\ defs = <<>>
    /\ saved = <<>>
    /\ num_imported_keystores = 0
    /\ steps = <<>>
    /\ reported = NotReported

----------------------------------------------------------------------------
\* The byte-mapped backing on its own: specification Spec.
\*
\* A call is one step: it changes the backing and leaves a record of itself
\* (call, res, prev).  Return hands control back to the caller, who drops the
\* record and makes the next call.

\* Byte strings handed to from_ssz_bytes: whole digests and cut ones.
DecodeLens == {0, 1, HASHSIZE, HASHSIZE + 1, 2 * HASHSIZE}

DecodeInputs ==
    {Slice(Flatten(Hashes(ids)), 0, n) :
        <<ids, n>> \in {x \in Repls \X DecodeLens :
                          x[2] <= Len(x[1]) * HASHSIZE
                          /\ x[2] > (Len(x[1]) - 1) * HASHSIZE}}

MaxBytes == MaxCap * HASHSIZE

InBounds(m) == m.len <= MaxBytes /\ capacity_bytes(m) <= MaxBytes

Call(op, a, b, repl, bytes) ==
    [op |-> op, a |-> a, b |-> b, repl |-> repl, bytes |-> bytes]

NoCall == Call("none", 0, 0, <<>>, <<>>)

\* The outcome of a call: of the AnonMmap (ret, out, n; mapfail when the
\* call panicked because the system refused the mapping) and of the Vec.
Res(ret, mapfail, out, n, vret, vout) ==
    [ret |-> ret, mapfail |-> mapfail, out |-> out, n |-> n,
     vret |-> vret, vout |-> vout]

\* The last call was op, made on an AnonMmap that had not panicked (or, for
\* a constructor, made at all).
Called(op) == call.op = op /\ res.ret # "none"

NoRes == Res("none", FALSE, <<>>, 0, "none", <<>>)

Idle == call = NoCall

OptSeq(o) == IF o.some THEN <<o.val>> ELSE <<>>

Init ==
    /\ arena = DefaultAnonMmap
    /\ vec = <<>>
    /\ live = [m |-> TRUE, v |-> FALSE]
    /\ call = NoCall
    /\ res = NoRes
    /\ prev = DefaultAnonMmap
    /\ ImportAtRest

\* A call on the AnonMmap alone that returned r = [ret, arena], where r0 is
\* what it returns when the system grants every mapping.
Finish(c, r, r0, out, n) ==
    /\ Idle
    /\ InBounds(r.arena)
    /\ arena' = r.arena
    /\ prev' = arena
    /\ call' = c
    /\ res' = Res(r.ret, r # r0, out, n, "none", <<>>)
    /\ live' = [live EXCEPT !.m = (r.ret = "ok")]
    /\ UNCHANGED <<vec, importVars>>

\* A constructor: on a panic no backing is constructed.
Construct(c, r, r0) ==
    Finish(c, IF r.ret = "ok" THEN r ELSE Panic(arena),
              IF r0.ret = "ok" THEN r0 ELSE Panic(arena), <<>>, 0)

WithCapacity ==
    /\ Idle
    /\ \E n \in Indices, oom \in BOOLEAN :
        Construct(Call("with_capacity", n, 0, <<>>, <<>>),
                  MmapWithCapacity(n, oom), MmapWithCapacity(n, FALSE))

\* from_ssz_bytes of some bytes, or of the encoding of the current backing.
FromSszBytes ==
    /\ Idle
    /\ \E bytes \in DecodeInputs \cup (IF live.m THEN {ssz_append(arena)} ELSE {}),
       oom \in BOOLEAN :
        Construct(Call("from_ssz_bytes", 0, 0, <<>>, bytes),
                  from_ssz_bytes(bytes, oom), from_ssz_bytes(bytes, FALSE))

ExtendCapacity ==
    /\ live.m
    /\ \E c \in Indices, oom \in BOOLEAN :
        Finish(Call("extend_capacity", c, 0, <<>>, <<>>),
               MmapExtendCapacity(arena, c, oom),
               MmapExtendCapacity(arena, c, FALSE), <<>>, 0)

SpliceForgetful ==
    /\ live.m
    /\ \E a \in Indices, b \in Indices, repl \in Repls, oom \in BOOLEAN :
        Finish(Call("splice_forgetful", a, b, repl, <<>>),
               MmapSpliceForgetful(arena, a, b, Hashes(repl), oom),
               MmapSpliceForgetful(arena, a, b, Hashes(repl), FALSE), <<>>, 0)

Get ==
    /\ live.m
    /\ \E i \in Indices :
        Finish(Call("get", i, 0, <<>>, <<>>), Ok(arena), Ok(arena),
               OptSeq(MmapGet(arena, i)), 0)

\* get_mut(i) and, when it gives a view, the write of digest d through it;
\* n is 1 when a view was returned.
GetMut ==
    /\ live.m
    /\ \E i \in Indices, d \in DigestIds :
        LET w == MmapGetMutWrite(arena, i, HashBytes(d)) IN
        Finish(Call("get_mut", i, 0, <<d>>, <<>>), Ok(w.arena), Ok(w.arena),
               <<>>, IF w.view THEN 1 ELSE 0)

IterRange ==
    /\ live.m
    /\ \E a \in Indices, b \in Indices :
        LET it == MmapIterRange(arena, a, b) IN
        Finish(Call("iter_range", a, b, <<>>, <<>>),
               [ret |-> it.ret, arena |-> arena],
               [ret |-> it.ret, arena |-> arena], it.out, 0)

Clone ==
    /\ live.m
    /\ \E oom \in BOOLEAN :
        Finish(Call("clone", 0, 0, <<>>, <<>>), MmapClone(arena, oom),
               MmapClone(arena, FALSE), <<>>, 0)

\* as_ssz_bytes: ssz_append to an empty buffer (out), with ssz_bytes_len (n).
SszAppend ==
    /\ live.m
    /\ Finish(Call("ssz_append", 0, 0, <<>>, <<>>), Ok(arena), Ok(arena),
              ssz_append(arena), ssz_bytes_len(arena))

\* The call has returned (or unwound): the caller goes on.
Return ==
    /\ ~Idle
    /\ call' = NoCall
    /\ res' = NoRes
    /\ prev' = arena
    /\ UNCHANGED <<arena, vec, live, importVars>>

Next ==
    \/ WithCapacity
    \/ FromSszBytes
    \/ ExtendCapacity
    \/ SpliceForgetful
    \/ Get
    \/ GetMut
    \/ IterRange
    \/ Clone
    \/ SszAppend
    \/ Return

Spec == Init /\ [][Next]_vars

----------------------------------------------------------------------------
\* The two backings driven by the same calls: specification SpecDiff.
\* Every mapping is granted here.  A backing that panicked takes no further
\* call until with_capacity constructs both anew.

InitDiff ==
    /\ arena = DefaultAnonMmap
    /\ vec = VecWithCapacity
    /\ live = [m |-> TRUE, v |-> TRUE]
    /\ call = NoCall
    /\ res = NoRes
    /\ prev = DefaultAnonMmap
    /\ ImportAtRest

\* A call made on both backings: mr = [ret, arena] and mout from the
\* AnonMmap, vr = [ret, vec] and vout from the Vec.
DiffFinish(c, mr, mout, vr, vout) ==
    /\ Idle
    /\ InBounds(mr.arena)
    /\ Len(vr.vec) <= MaxCap
    /\ arena' = mr.arena
    /\ vec' = vr.vec
    /\ prev' = arena
    /\ call' = c
    /\ res' = Res(mr.ret, FALSE, mout, 0, vr.ret, vout)
    /\ live' = [m |-> mr.ret = "ok", v |-> vr.ret = "ok"]
    /\ UNCHANGED importVars

\* The outcome for a backing that takes no call.
DeadMmap == [ret |-> "none", arena |-> arena]
DeadVec == [ret |-> "none", vec |-> vec]

DiffWithCapacity ==
    /\ Idle
    /\ \E n \in Indices :
        DiffFinish(Call("with_capacity", n, 0, <<>>, <<>>),
                   MmapWithCapacity(n, FALSE), <<>>,
                   [ret |-> "ok", vec |-> VecWithCapacity], <<>>)

DiffSpliceForgetful ==
    /\ live.m \/ live.v
    /\ \E a \in Indices, b \in Indices, repl \in Repls :
        DiffFinish(Call("splice_forgetful", a, b, repl, <<>>),
                   IF live.m
                   THEN MmapSpliceForgetful(arena, a, b, Hashes(repl), FALSE)
                   ELSE DeadMmap,
                   <<>>,
                   IF live.v
                   THEN VecSpliceForgetful(vec, a, b, Hashes(repl))
                   ELSE DeadVec,
                   <<>>)

DiffExtendCapacity ==
    /\ live.m \/ live.v
    /\ \E c \in Indices :
        DiffFinish(Call("extend_capacity", c, 0, <<>>, <<>>),
                   IF live.m THEN MmapExtendCapacity(arena, c, FALSE)
                   ELSE DeadMmap,
                   <<>>,
                   IF live.v
                   THEN [ret |-> "ok", vec |-> VecExtendCapacity(vec, c)]
                   ELSE DeadVec,
                   <<>>)

DiffGet ==
    /\ live.m \/ live.v
    /\ \E i \in Indices :
        DiffFinish(Call("get", i, 0, <<>>, <<>>),
                   IF live.m THEN Ok(arena) ELSE DeadMmap,
                   IF live.m THEN OptSeq(MmapGet(arena, i)) ELSE <<>>,
                   IF live.v THEN [ret |-> "ok", vec |-> vec] ELSE DeadVec,
                   IF live.v THEN OptSeq(VecGet(vec, i)) ELSE <<>>)

DiffIterRange ==
    /\ live.m \/ live.v
    /\ \E a \in Indices, b \in Indices :
        LET mit == MmapIterRange(arena, a, b)
            vit == VecIterRange(vec, a, b)
        IN  DiffFinish(Call("iter_range", a, b, <<>>, <<>>),
                       IF live.m THEN [ret |-> mit.ret, arena |-> arena]
                       ELSE DeadMmap,
                       IF live.m THEN mit.out ELSE <<>>,
                       IF live.v THEN [ret |-> vit.ret, vec |-> vec]
                       ELSE DeadVec,
                       IF live.v THEN vit.out ELSE <<>>)

NextDiff ==
    \/ DiffWithCapacity
    \/ DiffSpliceForgetful
    \/ DiffExtendCapacity
    \/ DiffGet
    \/ DiffIterRange
    \/ Return

SpecDiff == InitDiff /\ [][NextDiff]_vars

----------------------------------------------------------------------------
\* The validator import command, cli_run: specification SpecImport.
\*
\* Keystore::from_json_file, read_password_from_user, decrypt_keypair, the
\* file system, SlashingDatabase and ValidatorDefinitions are called, not
\* defined, by import.rs: each call returns Ok or Err as its caller sees it,
\* and an Ok call has the effect its name says.

InitImport ==
    /\ arena = DefaultAnonMmap
    /\ vec = <<>>
    /\ live = [m |-> FALSE, v |-> FALSE]
    /\ call = NoCall
    /\ res = NoRes
    /\ prev = DefaultAnonMmap
    /\ keystore_paths \in KeystorePaths
    /\ reuse_password \in BOOLEAN
    /\ existing \in SUBSET Pubkeys
    /\ pc = "start"
    /\ idx = 0
    /\ previous_password = NoPassword
    /\ password_opt = NoPassword
    /\ dest_dirs = existing
    /\ defs = <<>>
    /\ saved = <<>>
    /\ num_imported_keystores = 0
    /\ steps = <<>>
    /\ reported = NotReported

\* What no step of cli_run changes.
ImportFrame == UNCHANGED <<arenaVars, keystore_paths, reuse_password, existing>>

\* The keystore read from src_keystore, named by its pubkey.
keystore == keystore_paths[idx]

\* Keystore::decrypt_keypair is Ok for the keystore's own password.
decrypt_keypair(k, password) == password = k

\* `?` on an Err, or return Err(..): cli_run returns the error.
ReturnErr ==
    /\ pc' = "err"
    /\ steps' = Append(steps, Step("err", idx, NoPassword))
    /\ UNCHANGED <<idx, previous_password, password_opt, dest_dirs, defs,
                   saved, num_imported_keystores, reported>>

\* A statement that can only fail or go on to the statement at next.
GoOn(next) ==
    /\ pc' = next
    /\ UNCHANGED <<idx, previous_password, password_opt, dest_dirs, defs,
                   saved, num_imported_keystores, steps, reported>>

\* Lines 70-118: validator_dir, the definitions and the slashing protection
\* database are opened and the keystore paths collected; an empty directory
\* of keystores ends the run with Ok(()).
Start ==
    /\ pc = "start"
    /\ ImportFrame
    /\ \/ ReturnErr
       \/ /\ keystore_paths = <<>>
          /\ GoOn("ok")
       \/ /\ keystore_paths # <<>>
          /\ pc' = "read"
          /\ idx' = 1
          /\ UNCHANGED <<previous_password, password_opt, dest_dirs, defs,
                         saved, num_imported_keystores, steps, reported>>

\* Keystore::from_json_file(src_keystore) for the next path of the loop.
ReadKeystore ==
    /\ pc = "read"
    /\ idx <= Len(keystore_paths)
    /\ ImportFrame
    /\ (ReturnErr \/ GoOn("password"))

\* The password loop, entered with a previous password: it is taken as it
\* is.
ReusePreviousPassword ==
    /\ pc = "password"
    /\ previous_password.some
    /\ ImportFrame
    /\ password_opt' = previous_password
    /\ pc' = "dest"
    /\ UNCHANGED <<idx, previous_password, dest_dirs, defs, saved,
                   num_imported_keystores, steps, reported>>

\* One round of the password loop without a previous password: the prompt
\* is read and, unless it is empty, tried on the keystore.
PromptPassword ==
    /\ pc = "password"
    /\ ~previous_password.some
    /\ ImportFrame
    /\ \/ ReturnErr
       \/ \E password \in Typed :
            IF password = EmptyPassword
            THEN /\ password_opt' = NoPassword
                 /\ pc' = "dest"
                 /\ UNCHANGED <<idx, previous_password, dest_dirs, defs,
                                saved, num_imported_keystores, steps,
                                reported>>
            ELSE IF decrypt_keypair(keystore, password)
            THEN /\ password_opt' = SomePassword(password)
                 /\ previous_password' =
                        IF reuse_password THEN SomePassword(password)
                        ELSE previous_password
                 /\ steps' = Append(steps, Step("decrypt", idx,
                                                SomePassword(password)))
                 /\ pc' = "dest"
                 /\ UNCHANGED <<idx, dest_dirs, defs, saved,
                                num_imported_keystores, reported>>
            ELSE GoOn("password")

\* A slip at dest_dir.exists(): the keystore is imported over the directory
\* that is already there.
SkipExistingOverwrites ==
    /\ pc = "dest"
    /\ keystore \in dest_dirs
    /\ ImportFrame
    /\ GoOn("name")

\* dest_dir.exists(): the keystore is skipped and the loop continues.
SkipExisting ==
    /\ pc = "dest"
    /\ keystore \in dest_dirs
    /\ ImportFrame
    /\ pc' = "read"
    /\ idx' = idx + 1
    /\ UNCHANGED <<previous_password, password_opt, dest_dirs, defs, saved,
                   num_imported_keystores, steps, reported>>

\* fs::create_dir_all(&dest_dir)
CreateDestDir ==
    /\ pc = "dest"
    /\ keystore \notin dest_dirs
    /\ ImportFrame
    /\ \/ ReturnErr
       \/ /\ dest_dirs' = dest_dirs \cup {keystore}
          /\ pc' = "name"
          /\ UNCHANGED <<idx, previous_password, password_opt, defs, saved,
                         num_imported_keystores, steps, reported>>

\* dest_keystore from src_keystore.file_name()
DestKeystoreName ==
    /\ pc = "name"
    /\ ImportFrame
    /\ (ReturnErr \/ GoOn("copy"))

\* fs::copy(&src_keystore, &dest_keystore)
CopyKeystore ==
    /\ pc = "copy"
    /\ ImportFrame
    /\ \/ ReturnErr
       \/ /\ steps' = Append(steps, Step("copy", idx, NoPassword))
          /\ pc' = "pubkey"
          /\ UNCHANGED <<idx, previous_password, password_opt, dest_dirs,
                         defs, saved, num_imported_keystores, reported>>

\* keystore.public_key()
VotingPubkey ==
    /\ pc = "pubkey"
    /\ ImportFrame
    /\ (ReturnErr \/ GoOn("register"))

\* A slip at register_validator: its Err is dropped and the import goes on.
RegisterValidatorUnchecked ==
    /\ pc = "register"
    /\ ImportFrame
    /\ \/ /\ num_imported_keystores' = num_imported_keystores + 1
          /\ pc' = "define"
          /\ UNCHANGED <<idx, previous_password, password_opt, dest_dirs,
                         defs, saved, steps, reported>>
       \/ /\ steps' = Append(steps, Step("register", idx, NoPassword))
          /\ num_imported_keystores' = num_imported_keystores + 1
          /\ pc' = "define"
          /\ UNCHANGED <<idx, previous_password, password_opt, dest_dirs,
                         defs, saved, reported>>

\* slashing_protection.register_validator(&voting_pubkey), then
\* num_imported_keystores += 1.
RegisterValidator ==
    /\ pc = "register"
    /\ ImportFrame
    /\ \/ ReturnErr
       \/ /\ steps' = Append(steps, Step("register", idx, NoPassword))
          /\ num_imported_keystores' = num_imported_keystores + 1
          /\ pc' = "define"
          /\ UNCHANGED <<idx, previous_password, password_opt, dest_dirs,
                         defs, saved, reported>>

\* ValidatorDefinition::new_keystore_with_password, then defs.push.
PushDefinition ==
    /\ pc = "define"
    /\ ImportFrame
    /\ \/ ReturnErr
       \/ /\ defs' = Append(defs, [pubkey |-> keystore,
                                    password |-> password_opt])
          /\ steps' = Append(steps, Step("push", idx, password_opt))
          /\ pc' = "save"
          /\ UNCHANGED <<idx, previous_password, password_opt, dest_dirs,
                         saved, num_imported_keystores, reported>>

\* defs.save(&validator_dir); the loop goes on to the next path.
SaveDefinitions ==
    /\ pc = "save"
    /\ ImportFrame
    /\ \/ ReturnErr
       \/ /\ saved' = defs
          /\ steps' = Append(steps, Step("save", idx, NoPassword))
          /\ pc' = "read"
          /\ idx' = idx + 1
          /\ UNCHANGED <<previous_password, password_opt, dest_dirs, defs,
                         num_imported_keystores, reported>>

\* The loop is over: the closing message and Ok(()).
Summary ==
    /\ pc = "read"
    /\ idx > Len(keystore_paths)
    /\ ImportFrame
    /\ reported' = [printed |-> TRUE,
                    imported |-> num_imported_keystores,
                    skipped |-> Len(keystore_paths) - num_imported_keystores]
    /\ pc' = "ok"
    /\ UNCHANGED <<idx, previous_password, password_opt, dest_dirs, defs,
                   saved, num_imported_keystores, steps>>

NextImport ==
    \/ Start
    \/ ReadKeystore
    \/ ReusePreviousPassword
    \/ PromptPassword
    \/ SkipExisting
    \/ CreateDestDir
    \/ DestKeystoreName
    \/ CopyKeystore
    \/ VotingPubkey
    \/ RegisterValidator
    \/ PushDefinition
    \/ SaveDefinitions
    \/ Summary

SpecImport == InitImport /\ [][NextImport]_vars

----------------------------------------------------------------------------
\* Claims

\* Both backings took the last call.
BothCalled == res.ret # "none" /\ res.vret # "none"

\* C1 (backend equivalence): after every call made identically on a Vec and
\* on an AnonMmap, both returned the same way with the same digests, and they
\* report the same len() and the same get(i) for every i.
C1_BackendEquivalence ==
    BothCalled =>
        /\ res.ret = res.vret
        /\ res.out = res.vout
        /\ res.ret = "ok" =>
              /\ MmapLen(arena) = VecLen(vec)
              /\ \A i \in Indices : MmapGet(arena, i) = VecGet(vec, i)

\* The digest of slot i of m, for i < MmapLen(m).
Slot(m, i) == Slice(m.mmap.val, i * HASHSIZE, (i + 1) * HASHSIZE)

\* C2 (splice correctness): a splice of [a, b), 0 <= a <= b <= n, with k
\* digests on an arena of length n completes (when the system grants the
\* mapping) and leaves length n - (b - a) + k: the old prefix [0, a), then
\* the replacement, then the old suffix [b, n).
C2_SpliceCorrect ==
    (/\ Called("splice_forgetful")
     /\ ~res.mapfail
     /\ call.a <= call.b
     /\ call.b <= MmapLen(prev)) =>
        LET a == call.a
            b == call.b
            k == Len(call.repl)
            n == MmapLen(prev)
        IN  /\ res.ret = "ok"
            /\ MmapLen(arena) = n - (b - a) + k
            /\ \A i \in 0..(a - 1) : MmapGet(arena, i) = MmapGet(prev, i)
            /\ \A j \in 1..k :
                  MmapGet(arena, a + j - 1) = Some(HashBytes(call.repl[j]))
            /\ \A i \in b..(n - 1) :
                  MmapGet(arena, a + k + (i - b)) = MmapGet(prev, i)

\* C3 (byte-length invariant): a backing that has not panicked has
\* len_bytes() a multiple of 32, equal to len() * 32, and at most
\* capacity_bytes().
C3_ByteLengthInvariant ==
    live.m =>
        /\ len_bytes(arena) % HASHSIZE = 0
        /\ len_bytes(arena) = MmapLen(arena) * HASHSIZE
        /\ len_bytes(arena) <= capacity_bytes(arena)

\* C4 (len counts populated slots): the backing with_capacity(n) returns
\* has len() = 0, and extend_capacity never changes len().
C4_LenCountsPopulated ==
    /\ (Called("with_capacity") /\ res.ret = "ok") => MmapLen(arena) = 0
    /\ (Called("extend_capacity") /\ res.ret = "ok") =>
          MmapLen(arena) = MmapLen(prev)

\* C5 (get bounds): get(i) returns without a panic, Some(copy of slot i)
\* when i < len() and None when i >= len().
C5_GetBounds ==
    Called("get") =>
        /\ res.ret = "ok"
        /\ res.out = IF call.a < MmapLen(prev) THEN <<Slot(prev, call.a)>>
                      ELSE <<>>

\* C6 (invalid splice ranges have no effect): a splice whose range has
\* end < start or end > len() leaves len_bytes(), the mapping and every
\* stored byte as they were.
C6_InvalidSpliceNoEffect ==
    (/\ Called("splice_forgetful")
     /\ (call.b < call.a \/ call.b > MmapLen(prev))) =>
        arena = prev

C8_RoundTrip ==
    (/\ Called("from_ssz_bytes")
     /\ call.bytes = ssz_append(prev)
     /\ ~res.mapfail) =>
        /\ res.ret = "ok"
        /\ MmapLen(arena) = MmapLen(prev)
        /\ \A i \in 0..(MmapLen(prev) - 1) :
              MmapGet(arena, i) = MmapGet(prev, i)

\* C9 (the encoding is the populated bytes): ssz_append appends exactly the
\* len_bytes() populated bytes and ssz_bytes_len() returns that byte count.
C9_EncodesPopulatedBytes ==
    Called("ssz_append") =>
        /\ res.out = (IF prev.mmap.some THEN Slice(prev.mmap.val, 0, prev.len)
                       ELSE <<>>)
        /\ Len(res.out) = len_bytes(prev)
        /\ res.n = len_bytes(prev)

\* C10 (malformed input is rejected): from_ssz_bytes of bytes whose length
\* is not a multiple of 32 does not return Ok.
C10_MalformedRejected ==
    (Called("from_ssz_bytes") /\ Len(call.bytes) % HASHSIZE # 0) =>
        res.ret # "ok"

\* The size the last call handed to new_non_empty_mmap, if it got there.
MapRequest ==
    CASE call.op = "with_capacity" -> WithCapacityRequest(call.a)
      [] call.op = "from_ssz_bytes" -> FromSszBytesRequest(call.bytes)
      [] call.op = "extend_capacity" -> ExtendCapacityRequest(prev, call.a)
      [] call.op = "clone" -> CloneRequest(prev)
      [] call.op = "splice_forgetful" ->
            SpliceRequest(prev, call.a, call.b, Hashes(call.repl))
      [] OTHER -> None

\* C11 (no zero-length mapping): no call hands size 0 to new_non_empty_mmap
\* (not from_ssz_bytes of empty input either), with_capacity(0) leaves no
\* mapping, and a mapping that is present has capacity_bytes() > 0.
C11_NoZeroLengthMapping ==
    /\ res.ret # "none" => MapRequest # Some(0)
    /\ (Called("with_capacity") /\ call.a = 0) =>
          (res.ret = "ok" /\ arena = DefaultAnonMmap)
    /\ arena.mmap.some => capacity_bytes(arena) > 0

\* C12 (with_capacity reserves room that is then used): with_capacity(n),
\* n > 0, gives a mapping of n * 32 zero bytes, and a splice that inserts at
\* most n digests into the arena with_capacity(n) returned completes without
\* a new mapping: capacity_bytes() stays n * 32.
C12_ReservedRoomUsed ==
    /\ (Called("with_capacity") /\ res.ret = "ok" /\ call.a > 0) =>
          /\ capacity_bytes(arena) = call.a * HASHSIZE
          /\ arena.mmap.val = Zeros(call.a * HASHSIZE)
    /\ \A n \in 1..MaxCap :
          ( /\ Called("splice_forgetful")
            /\ prev = MmapWithCapacity(n, FALSE).arena
            /\ call.a = 0 /\ call.b = 0
            /\ Len(call.repl) <= n
            /\ ~res.mapfail ) =>
              /\ res.ret = "ok"
              /\ capacity_bytes(arena) = n * HASHSIZE

\* C13 (reuse-or-reallocate policy): a splice_forgetful that completes with
\* new_len > 0 makes no new mapping and leaves capacity_bytes() as it was when
\* new_len fits the existing mapping; otherwise it makes one new mapping and
\* capacity_bytes() becomes exactly new_len.
C13_ReuseOrReallocate ==
    (Called("splice_forgetful") /\ res.ret = "ok" /\ arena.len > 0) =>
        LET req == SpliceRequest(prev, call.a, call.b, Hashes(call.repl)) IN
        IF arena.len <= capacity_bytes(prev)
        THEN req = None /\ capacity_bytes(arena) = capacity_bytes(prev)
        ELSE req = Some(arena.len) /\ capacity_bytes(arena) = arena.len

\* A splice has written a digest into the slack of the existing mapping.
C13_Witness ==
    /\ Called("splice_forgetful") /\ res.ret = "ok"
    /\ call.a = call.b /\ Len(call.repl) > 0
    /\ prev.mmap.some
    /\ arena.len > prev.len
    /\ arena.len <= capacity_bytes(prev)

\* C14 (no partially-swapped state): a splice_forgetful that aborts leaves
\* the arena with its previous mapping, len_bytes() and digests.
C14_AbortLeavesArena ==
    (Called("splice_forgetful") /\ res.ret = "panic") => arena = prev

\* C15 (iter_range addressing): on either backing, iter_range(start..end) with
\* start <= end <= len() yields end - start digests, the j-th equal to
\* get(start + j); with end > len() the call fails and yields nothing.
C15_IterRangeAddressing ==
    call.op = "iter_range" =>
        /\ res.ret # "none" =>
              /\ (call.a <= call.b /\ call.b <= MmapLen(arena)) =>
                    /\ res.ret = "ok"
                    /\ Len(res.out) = call.b - call.a
                    /\ \A j \in 1..Len(res.out) :
                          MmapGet(arena, call.a + j - 1) = Some(res.out[j])
              /\ call.b > MmapLen(arena) =>
                    (res.ret = "panic" /\ res.out = <<>>)
        /\ res.vret # "none" =>
              /\ (call.a <= call.b /\ call.b <= VecLen(vec)) =>
                    /\ res.vret = "ok"
                    /\ Len(res.vout) = call.b - call.a
                    /\ \A j \in 1..Len(res.vout) :
                          VecGet(vec, call.a + j - 1) = Some(res.vout[j])
              /\ call.b > VecLen(vec) =>
                    (res.vret = "panic" /\ res.vout = <<>>)

\* Both backings have yielded the digests of a non-empty range.
C15_Witness ==
    /\ call.op = "iter_range" /\ call.a < call.b
    /\ res.ret = "ok" /\ res.vret = "ok"
    /\ call.b <= MmapLen(arena) /\ call.b <= VecLen(vec)
    /\ Len(res.out) = call.b - call.a
    /\ Len(res.vout) = call.b - call.a

\* C16 (get_mut bounds and frame): get_mut(i) returns a view exactly when
\* i < len(); overwriting the view changes get(i) to the written value and
\* leaves len(), capacity_bytes() and get(j) for every j # i as they were.
C16_GetMutBoundsAndFrame ==
    Called("get_mut") =>
        /\ (res.n = 1) <=> (call.a < MmapLen(prev))
        /\ res.n = 1 =>
              /\ MmapGet(arena, call.a) = Some(HashBytes(call.repl[1]))
              /\ MmapLen(arena) = MmapLen(prev)
              /\ capacity_bytes(arena) = capacity_bytes(prev)
              /\ \A j \in Indices \ {call.a} :
                    MmapGet(arena, j) = MmapGet(prev, j)
        /\ res.n = 0 => arena = prev

\* C17 (clone is a full copy): the clone of an arena has the same len() and
\* the same digest at every index as the original, and the two compare equal
\* under PartialEq, also when the original has capacity beyond len_bytes().
C17_CloneFullCopy ==
    (Called("clone") /\ res.ret = "ok") =>
        /\ MmapLen(arena) = MmapLen(prev)
        /\ \A i \in 0..(MmapLen(prev) - 1) :
              MmapGet(arena, i) = MmapGet(prev, i)
        /\ MmapEq(arena, prev) = [ret |-> "ok", eq |-> TRUE]

\* C18 (reallocating splice copies only populated bytes): an insertion at
\* start..start, start <= len(), that needs a larger mapping than the existing
\* one completes when the mapping is granted, also when the old mapping has
\* slack; the new mapping has exactly new_len bytes: the old bytes before
\* the range, the replacement, then the old bytes from the range's end up to
\* the old len.
C18_ReallocCopiesPopulated ==
    LET new_len == prev.len + Len(call.repl) * HASHSIZE
        at == call.a * HASHSIZE
    IN  ( /\ Called("splice_forgetful")
          /\ call.a = call.b /\ call.a <= MmapLen(prev)
          /\ prev.mmap.some
          /\ capacity_bytes(prev) >= prev.len
          /\ new_len > capacity_bytes(prev)
          /\ ~res.mapfail ) =>
            /\ res.ret = "ok"
            /\ arena.len = new_len
            /\ arena.mmap = Some(Slice(prev.mmap.val, 0, at)
                                 \o Flatten(Hashes(call.repl))
                                 \o Slice(prev.mmap.val, at, prev.len))

\* Position of a step in the order cli_run is to keep within one keystore.
Rank(op) ==
    CASE op = "decrypt" -> 0
      [] op = "copy" -> 1
      [] op = "register" -> 2
      [] op = "push" -> 3
      [] op = "save" -> 4
      [] op = "err" -> 5

\* The run has done op for the k-th keystore path, within its first n steps.
Did(op, k, n) == \E i \in 1..n : steps[i].op = op /\ steps[i].k = k

\* C19 (import step ordering): keystores are handled one after the other and
\* each in the order copy, register_validator, push, save; a definition is
\* pushed and saved only after register_validator returned Ok for that
\* keystore; a failing step is the last thing the run does, and the run
\* has then returned Err.
C19_ImportStepOrdering ==
    /\ \A i \in 1..Len(steps), j \in 1..Len(steps) :
          i < j =>
            /\ steps[i].k <= steps[j].k
            /\ steps[i].k = steps[j].k =>
                  Rank(steps[i].op) < Rank(steps[j].op)
    /\ \A j \in 1..Len(steps) :
          /\ steps[j].op = "register" => Did("copy", steps[j].k, j - 1)
          /\ steps[j].op = "push" => Did("register", steps[j].k, j - 1)
          /\ steps[j].op = "save" => Did("push", steps[j].k, j - 1)
          /\ steps[j].op = "err" => j = Len(steps)
    /\ (pc = "err") <=> (steps # <<>> /\ steps[Len(steps)].op = "err")
    /\ Len(defs) = Cardinality({j \in 1..Len(steps) : steps[j].op = "push"})
    /\ Len(saved) <= Len(defs)
    /\ saved = SubSeq(defs, 1, Len(saved))
    /\ \A n \in 1..Len(defs) :
          \E k \in 1..Len(keystore_paths) :
             /\ defs[n].pubkey = keystore_paths[k]
             /\ Did("register", k, Len(steps))

\* The first keystore has been imported, the second one was copied and its
\* registration failed.
C19_Witness ==
    /\ pc = "err"
    /\ Did("save", 1, Len(steps))
    /\ Did("copy", 2, Len(steps))
    /\ ~Did("register", 2, Len(steps))
    /\ Len(defs) = 1 /\ saved = defs

\* The k-th keystore path has been copied, registered, pushed or saved.
Touched(k) ==
    \E op \in {"copy", "register", "push", "save"} : Did(op, k, Len(steps))

\* The destination directory of the k-th keystore path exists when the loop
\* gets to it: it was there at the start, or an earlier path of this run
\* holds the same keystore.
DestDirExists(k) ==
    \/ keystore_paths[k] \in existing
    \/ \E k0 \in 1..(k - 1) : keystore_paths[k0] = keystore_paths[k]

\* C20 (existing keystores are skipped without side effects): a keystore
\* whose destination directory exists is not copied, registered, pushed or
\* saved, the run does not get past the existence test with it, and a run
\* that returns Ok reports counts with imported + skipped equal to the number
\* of keystore paths, skipped being the number of keystores whose directory
\* existed.
C20_ExistingSkipped ==
    /\ \A k \in 1..Len(keystore_paths) :
          DestDirExists(k) =>
            /\ ~Touched(k)
            /\ idx = k => pc \in {"read", "password", "dest", "err"}
            /\ \A n \in 1..Len(defs) :
                  defs[n].pubkey = keystore_paths[k] =>
                     \E k0 \in 1..(k - 1) :
                        keystore_paths[k0] = keystore_paths[k]
    /\ (pc = "ok" /\ reported.printed) =>
          /\ reported.imported + reported.skipped = Len(keystore_paths)
          /\ reported.skipped =
                Cardinality({k \in 1..Len(keystore_paths) : DestDirExists(k)})
          /\ reported.imported =
                Cardinality({k \in 1..Len(keystore_paths) :
                                Did("save", k, Len(steps))})

\* A run has returned Ok after skipping the first keystore, whose directory
\* existed, and importing the second.
C20_Witness ==
    /\ pc = "ok" /\ reported.printed
    /\ Len(keystore_paths) = 2
    /\ keystore_paths[1] \in existing
    /\ ~Touched(1)
    /\ Did("save", 2, Len(steps))
    /\ reported.skipped = 1 /\ reported.imported = 1

\* C21 (extend_capacity only changes capacity): extend_capacity(c), with the
\* mapping granted, completes, leaves len() and get(i) for every i < len()
\* as they were, does not decrease capacity_bytes(), and leaves
\* capacity_bytes() >= c * 32, also on a backing without a mapping.
C21_ExtendCapacityOnlyCapacity ==
    (Called("extend_capacity") /\ ~res.mapfail) =>
        /\ res.ret = "ok"
        /\ MmapLen(arena) = MmapLen(prev)
        /\ \A i \in 0..(MmapLen(prev) - 1) :
              MmapGet(arena, i) = MmapGet(prev, i)
        /\ capacity_bytes(arena) >= capacity_bytes(prev)
        /\ capacity_bytes(arena) >= call.a * HASHSIZE

\* C22 (stored passwords are verified passwords): a definition pushed with a
\* password (Some) is pushed after decrypt_keypair returned Ok with that
\* password on the same keystore, in the same run, with or without
\* --reuse-password.
C22_StoredPasswordsVerified ==
    /\ \A j \in 1..Len(steps) :
          (steps[j].op = "push" /\ steps[j].password.some) =>
             \E i \in 1..(j - 1) :
                /\ steps[i].op = "decrypt"
                /\ steps[i].k = steps[j].k
                /\ steps[i].password = steps[j].password
    /\ \A n \in 1..Len(defs) :
          defs[n].password.some =>
             \E i \in 1..Len(steps) :
                /\ steps[i].op = "decrypt"
                /\ keystore_paths[steps[i].k] = defs[n].pubkey
                /\ steps[i].password = defs[n].password

====
